---- MODULE Spec2Model ----
(***************************************************************************)
(* libnodegl/cspace.py: derivation of the YUV -> RGB colour matrices with  *)
(* exact rational arithmetic (fractions.Fraction) and generation of the    *)
(* colormatrix.h / colormatrix.c tables.                                   *)
(***************************************************************************)
EXTENDS Integers, Sequences, FiniteSets

(***************************************************************************)
(* Arbitrary precision integers.  Python's int (and so Fraction) never     *)
(* overflows; the numerators and denominators met here exceed 32 bits, so  *)
(* a natural number is a little-endian sequence of limbs in 0..Base-1 with *)
(* no high zero limb (zero is the empty sequence).                         *)
(***************************************************************************)
Base == 100 * 100

RECURSIVE NFromInt(_)
NFromInt(n) == IF n = 0 THEN <<>> ELSE <<n % Base>> \o NFromInt(n \div Base)

RECURSIVE NStrip(_)
NStrip(a) ==
    IF a = <<>> THEN <<>>
    ELSE IF a[Len(a)] = 0 THEN NStrip(SubSeq(a, 1, Len(a) - 1)) ELSE a

Limb(a, k) == IF k <= Len(a) THEN a[k] ELSE 0

MaxLen(a, b) == IF Len(a) >= Len(b) THEN Len(a) ELSE Len(b)

\* a + b: carry[k] is the carry out of limb k.
RECURSIVE NAddFrom(_, _, _, _)
NAddFrom(a, b, k, c) ==
    IF k > MaxLen(a, b) THEN (IF c = 0 THEN <<>> ELSE <<c>>)
    ELSE LET s == Limb(a, k) + Limb(b, k) + c
         IN  <<s % Base>> \o NAddFrom(a, b, k + 1, s \div Base)

NAdd(a, b) == NAddFrom(a, b, 1, 0)

\* a - b for a >= b.
RECURSIVE NSubFrom(_, _, _, _)
NSubFrom(a, b, k, c) ==
    IF k > Len(a) THEN <<>>
    ELSE LET s == Limb(a, k) - Limb(b, k) - c
         IN  IF s < 0 THEN <<s + Base>> \o NSubFrom(a, b, k + 1, 1)
             ELSE <<s>> \o NSubFrom(a, b, k + 1, 0)

NSub(a, b) == NStrip(NSubFrom(a, b, 1, 0))

\* -1, 0, 1 as a < b, a = b, a > b.
RECURSIVE NCmpFrom(_, _, _)
NCmpFrom(a, b, k) ==
    IF k = 0 THEN 0
    ELSE IF a[k] < b[k] THEN -1
    ELSE IF a[k] > b[k] THEN 1
    ELSE NCmpFrom(a, b, k - 1)

NCmp(a, b) ==
    IF Len(a) < Len(b) THEN -1
    ELSE IF Len(a) > Len(b) THEN 1
    ELSE NCmpFrom(a, b, Len(a))

\* a * d for one limb d.
RECURSIVE NMulLimbFrom(_, _, _, _)
NMulLimbFrom(a, d, k, c) ==
    IF k > Len(a) THEN (IF c = 0 THEN <<>> ELSE <<c>>)
    ELSE LET s == a[k] * d + c
         IN  <<s % Base>> \o NMulLimbFrom(a, d, k + 1, s \div Base)

NMulLimb(a, d) == IF d = 0 THEN <<>> ELSE NMulLimbFrom(a, d, 1, 0)

RECURSIVE NMulFrom(_, _, _)
NMulFrom(a, b, k) ==
    IF k > Len(b) THEN <<>>
    ELSE LET rest == NMulFrom(a, b, k + 1)
         IN  NAdd(NMulLimb(a, b[k]), IF rest = <<>> THEN <<>> ELSE <<0>> \o rest)

NMul(a, b) ==
    IF a = <<>> \/ b = <<>> THEN <<>>
    ELSE IF Len(a) >= Len(b) THEN NMulFrom(a, b, 1) ELSE NMulFrom(b, a, 1)

\* Signed integers: sign and magnitude, zero is never negative.
Z(neg, mag) == [neg |-> neg /\ mag # <<>>, mag |-> mag]

ZFromInt(n) == IF n < 0 THEN Z(TRUE, NFromInt(-n)) ELSE Z(FALSE, NFromInt(n))

ZNeg(a) == Z(~a.neg, a.mag)

ZAdd(a, b) ==
    IF a.neg = b.neg THEN Z(a.neg, NAdd(a.mag, b.mag))
    ELSE IF NCmp(a.mag, b.mag) >= 0 THEN Z(a.neg, NSub(a.mag, b.mag))
    ELSE Z(b.neg, NSub(b.mag, a.mag))

ZMul(a, b) == Z(a.neg # b.neg, NMul(a.mag, b.mag))

ZIsZero(a) == a.mag = <<>>

NOne == <<1>>

(***************************************************************************)
(* fractions.Fraction: an exact rational num/den with den > 0.  Python     *)
(* keeps it in lowest terms; here the pair is kept as computed and Eq      *)
(* compares by cross multiplication, which decides the same equality.      *)
(***************************************************************************)
Frac(num, den) == [num |-> num, den |-> den]

\* Fraction(n) and Fraction(n, d) of Python ints, d # 0.
Int2F(n) == Frac(ZFromInt(n), NOne)

IntFraction(n, d) ==
    IF d < 0 THEN Frac(ZFromInt(-n), NFromInt(-d)) ELSE Frac(ZFromInt(n), NFromInt(d))

Add(a, b) ==
    IF a.den = b.den THEN Frac(ZAdd(a.num, b.num), a.den)
    ELSE Frac(ZAdd(ZMul(a.num, Z(FALSE, b.den)), ZMul(b.num, Z(FALSE, a.den))),
              NMul(a.den, b.den))

Neg(a) == Frac(ZNeg(a.num), a.den)

Sub(a, b) == Add(a, Neg(b))

Mul(a, b) == Frac(ZMul(a.num, b.num), NMul(a.den, b.den))

IsZero(a) == ZIsZero(a.num)

\* a / b for b # 0 (Python raises ZeroDivisionError for b = 0).
Div(a, b) ==
    Frac(Z(a.num.neg # b.num.neg, NMul(a.num.mag, b.den)), NMul(a.den, b.num.mag))

Eq(a, b) == ZMul(a.num, Z(FALSE, b.den)) = ZMul(b.num, Z(FALSE, a.den))

(***************************************************************************)
(* The constants of the module.                                            *)
(***************************************************************************)
Names == {"bt601", "bt709", "bt2020"}

\* K_constants with the Kg of bt709 mistyped (7125 for 7152).
K_constants_typo ==
    [n \in Names |->
        CASE n = "bt601"  -> <<IntFraction(299, 1000), IntFraction(587, 1000),
                               IntFraction(114, 1000)>>
          [] n = "bt709"  -> <<IntFraction(2126, 10000), IntFraction(7125, 10000),
                               IntFraction(722, 10000)>>
          [] n = "bt2020" -> <<IntFraction(2627, 10000), IntFraction(6780, 10000),
                               IntFraction(593, 10000)>>]

K_constants ==
    [n \in Names |->
        CASE n = "bt601"  -> <<IntFraction(299, 1000), IntFraction(587, 1000),
                               IntFraction(114, 1000)>>
          [] n = "bt709"  -> <<IntFraction(2126, 10000), IntFraction(7152, 10000),
                               IntFraction(722, 10000)>>
          [] n = "bt2020" -> <<IntFraction(2627, 10000), IntFraction(6780, 10000),
                               IntFraction(593, 10000)>>]

\* (y_off, y_range, uv_range) if video_range else the full range.
RangeProfile(video_range) == IF video_range THEN <<16, 219, 224>> ELSE <<0, 255, 255>>

\* Fraction(a, b) of two rationals, b # 0.
Fraction(a, b) == Div(a, b)

\* The assertion compiled out.
AssertDisabled(k) == TRUE

\* assert Kg == 1 - Kb - Kr
Consistent(k) == Eq(k[2], Sub(Sub(Int2F(1), k[3]), k[1]))

\* The divisors of the Fraction(., .) calls of _get_matrix; a zero one raises
\* ZeroDivisionError.
Divisors(k, video_range) ==
    LET p == RangeProfile(video_range)
        y_range == Int2F(p[2])
        uv_range == Int2F(p[3])
        Kg == k[2]
    IN  <<y_range, uv_range, Mul(y_range, Kg), Mul(Kg, uv_range), Kg>>

\* The R column with the Y factor over the chroma excursion (uv_range for y_range).
R_column_uv_excursion(k, video_range) ==
    LET Kr == k[1]
        p == RangeProfile(video_range)
        y_off == Int2F(p[1])
        y_range == Int2F(p[2])
        uv_range == Int2F(p[3])
        one == Int2F(1)
        r_y_factor  == Mul(Int2F(255), Fraction(one, uv_range))
        r_cb_factor == Int2F(0)
        r_cr_factor == Mul(Int2F(255 * 2), Fraction(Sub(one, Kr), uv_range))
        r_off       == Sub(Fraction(Neg(y_off), y_range),
                           Mul(Int2F(128 * 2), Fraction(Sub(one, Kr), uv_range)))
    IN  <<r_y_factor, r_cb_factor, r_cr_factor, r_off>>

\* <<r_y_factor, r_cb_factor, r_cr_factor, r_off>>
R_column(k, video_range) ==
    LET Kr == k[1]
        p == RangeProfile(video_range)
        y_off == Int2F(p[1])
        y_range == Int2F(p[2])
        uv_range == Int2F(p[3])
        one == Int2F(1)
        r_y_factor  == Mul(Int2F(255), Fraction(one, y_range))
        r_cb_factor == Int2F(0)
        r_cr_factor == Mul(Int2F(255 * 2), Fraction(Sub(one, Kr), uv_range))
        r_off       == Sub(Fraction(Neg(y_off), y_range),
                           Mul(Int2F(128 * 2), Fraction(Sub(one, Kr), uv_range)))
    IN  <<r_y_factor, r_cb_factor, r_cr_factor, r_off>>

\* <<g_y_factor, g_cb_factor, g_cr_factor, g_off>>
G_column(k, video_range) ==
    LET Kr == k[1]
        Kg == k[2]
        Kb == k[3]
        p == RangeProfile(video_range)
        y_off == Int2F(p[1])
        y_range == Int2F(p[2])
        uv_range == Int2F(p[3])
        one == Int2F(1)
        g_y_factor  == Mul(Int2F(255),
                           Fraction(Sub(Sub(one, Kr), Kb), Mul(y_range, Kg)))
        g_cb_factor == Mul(Mul(Mul(Int2F(-255), Kb), Int2F(2)),
                           Fraction(Sub(one, Kb), Mul(Kg, uv_range)))
        g_cr_factor == Mul(Mul(Mul(Int2F(-255), Kr), Int2F(2)),
                           Fraction(Sub(one, Kr), Mul(Kg, uv_range)))
        g_off       == Fraction(
                           Add(Add(Mul(Neg(y_off),
                                       Fraction(Sub(Sub(one, Kr), Kb), y_range)),
                                   Mul(Mul(Mul(Int2F(128), Kb), Int2F(2)),
                                       Fraction(Sub(one, Kb), uv_range))),
                               Mul(Mul(Mul(Int2F(128), Kr), Int2F(2)),
                                   Fraction(Sub(one, Kr), uv_range))),
                           Kg)
    IN  <<g_y_factor, g_cb_factor, g_cr_factor, g_off>>

\* The B column with the offset of the R column (1-Kr for 1-Kb).
B_column_Kr_offset(k, video_range) ==
    LET Kr == k[1]
        Kb == k[3]
        p == RangeProfile(video_range)
        y_off == Int2F(p[1])
        y_range == Int2F(p[2])
        uv_range == Int2F(p[3])
        one == Int2F(1)
        b_y_factor  == Mul(Int2F(255), Fraction(one, y_range))
        b_cb_factor == Mul(Int2F(255 * 2), Fraction(Sub(one, Kb), uv_range))
        b_cr_factor == Int2F(0)
        b_off       == Sub(Fraction(Neg(y_off), y_range),
                           Mul(Int2F(128 * 2), Fraction(Sub(one, Kr), uv_range)))
    IN  <<b_y_factor, b_cb_factor, b_cr_factor, b_off>>

\* <<b_y_factor, b_cb_factor, b_cr_factor, b_off>>
B_column(k, video_range) ==
    LET Kb == k[3]
        p == RangeProfile(video_range)
        y_off == Int2F(p[1])
        y_range == Int2F(p[2])
        uv_range == Int2F(p[3])
        one == Int2F(1)
        b_y_factor  == Mul(Int2F(255), Fraction(one, y_range))
        b_cb_factor == Mul(Int2F(255 * 2), Fraction(Sub(one, Kb), uv_range))
        b_cr_factor == Int2F(0)
        b_off       == Sub(Fraction(Neg(y_off), y_range),
                           Mul(Int2F(128 * 2), Fraction(Sub(one, Kb), uv_range)))
    IN  <<b_y_factor, b_cb_factor, b_cr_factor, b_off>>

\* The rows with R, G, B along the rows instead of along the columns.
RowsTransposed(r, g, b) ==
    << <<r[1], r[2], r[3], r[4]>>,
       <<g[1], g[2], g[3], g[4]>>,
       <<b[1], b[2], b[3], b[4]>>,
       <<Int2F(0), Int2F(0), Int2F(0), Int2F(1)>> >>

\* The returned list of rows, from the three columns.
Rows(r, g, b) ==
    << <<r[1], g[1], b[1], Int2F(0)>>,
       <<r[2], g[2], b[2], Int2F(0)>>,
       <<r[3], g[3], b[3], Int2F(0)>>,
       <<r[4], g[4], b[4], Int2F(1)>> >>

Matrix(k, video_range) ==
    Rows(R_column(k, video_range), G_column(k, video_range), B_column(k, video_range))

Raise(e) == [err |-> e, mat |-> <<>>]

\* _get_matrix(name, video_range) reading the table tbl (K_constants).
_get_matrix(tbl, cspace, vrange) ==
    IF cspace \notin DOMAIN tbl THEN Raise("KeyError")
    ELSE IF ~Consistent(tbl[cspace]) THEN Raise("AssertionError")
    ELSE IF \E d \in 1..5 : IsZero(Divisors(tbl[cspace], vrange)[d])
         THEN Raise("ZeroDivisionError")
    ELSE [err |-> "none", mat |-> Matrix(tbl[cspace], vrange)]

(***************************************************************************)
(* The model of the docstring: the matrix acts on the row (Y, Cb, Cr, 1),  *)
(* and the forward (RGB -> YCbCr) equations it inverts.                    *)
(***************************************************************************)
\* channel c (1 = R, 2 = G, 3 = B) of (Y, Cb, Cr, 1) * mat
Channel(mat, v, c) ==
    Add(Add(Add(Mul(v[1], mat[1][c]), Mul(v[2], mat[2][c])), Mul(v[3], mat[3][c])),
        mat[4][c])

ApplyMatrix(mat, v) == <<Channel(mat, v, 1), Channel(mat, v, 2), Channel(mat, v, 3)>>

\* An 8-bit code as the normalized sample code / 255.
Code(c) == IntFraction(c, 255)

\* The forward equations divide by 2*(1-Kb) and 2*(1-Kr).
ForwardDefined(k) ==
    /\ ~IsZero(Sub(Int2F(1), k[3]))
    /\ ~IsZero(Sub(Int2F(1), k[1]))

ForwardModel(k, vrange, v) ==
    LET Kr == k[1]
        Kg == k[2]
        Kb == k[3]
        p == RangeProfile(vrange)
        one == Int2F(1)
        Yq  == Add(Add(Mul(Kr, v[1]), Mul(Kg, v[2])), Mul(Kb, v[3]))
        Cbq == Div(Sub(v[3], Yq), Mul(Int2F(2), Sub(one, Kb)))
        Crq == Div(Sub(v[1], Yq), Mul(Int2F(2), Sub(one, Kr)))
    IN  <<Div(Add(Mul(Yq, Int2F(p[2])), Int2F(p[1])), Int2F(255)),
          Div(Add(Mul(Cbq, Int2F(p[3])), Int2F(128)), Int2F(255)),
          Div(Add(Mul(Crq, Int2F(p[3])), Int2F(128)), Int2F(255))>>

(***************************************************************************)
(* _gen_tables and the tables it writes.                                   *)
(***************************************************************************)
cspaces == <<"undefined", "bt601", "bt709", "bt2020">>

\* 'NGLI_COLORMATRIX_' + cspace.upper()
EnumName(cspace) ==
    CASE cspace = "undefined" -> "NGLI_COLORMATRIX_UNDEFINED"
      [] cspace = "bt601"     -> "NGLI_COLORMATRIX_BT601"
      [] cspace = "bt709"     -> "NGLI_COLORMATRIX_BT709"
      [] cspace = "bt2020"    -> "NGLI_COLORMATRIX_BT2020"

\* The default with the full range.
FullRangeDefault == FALSE

\* def _get_matrix(name, video_range=True): the default _gen_tables relies on.
DefaultVideoRange == TRUE

\* The loop without its continue.
SkipNothing(idx) == FALSE

\* if i == 0: continue
SkipsBuilder(idx) == idx = 0

\* [x for row in mat for x in row]
FlatMat(mat) == mat[1] \o mat[2] \o mat[3] \o mat[4]

\* An exception of _get_matrix propagates out of _gen_tables.
Raises(r) == r.err # "none"

\* The '#define NAME i' lines: enumerate(enums).
EnumDefines(es) == [j \in 1..Len(es) |-> [define |-> es[j], value |-> j - 1]]

Min(a, b) == IF a <= b THEN a ELSE b

\* The initializers zipped from all of enums, not from enums[1:].
MatrixDefsFromFirst(es, ms) ==
    [j \in 1..Min(Len(es), Len(ms)) |-> [designator |-> es[j], values |-> ms[j]]]

\* The '[NAME] = { 16 values },' initializers: zip(enums[1:], matrices).
MatrixDefs(es, ms) ==
    [j \in 1..Min(Len(es) - 1, Len(ms)) |-> [designator |-> es[j + 1], values |-> ms[j]]]

\* The last content written to path, "absent" if none.
RECURSIVE FileAt(_, _)
FileAt(writes, path) ==
    IF writes = <<>> THEN [kind |-> "absent"]
    ELSE IF writes[Len(writes)].path = path THEN writes[Len(writes)].content
    ELSE FileAt(SubSeq(writes, 1, Len(writes) - 1), path)

\* The value a #define of the header gives to a name.
DefineValue(h, nm) ==
    (CHOOSE j \in 1..Len(h.enum_defines) : h.enum_defines[j].define = nm) - 1

ZeroRow == [j \in 1..16 |-> Int2F(0)]

\* static const float colormatrices[][16] = { [NAME] = {...}, ... } compiled
\* against the header: the array runs to the largest designator, and a row with
\* no initializer is zero.  A value is kept as the rational its literal
\* 'num/den.' denotes.
Colormatrices(h, c) ==
    LET defs == c.colormatrices
        at(j) == DefineValue(h, defs[j].designator)
        size == IF defs = <<>> THEN 0
                ELSE 1 + (CHOOSE m \in {at(j) : j \in 1..Len(defs)} :
                            \A j \in 1..Len(defs) : at(j) <= m)
    IN  [idx \in 0..(size - 1) |->
            IF \E j \in 1..Len(defs) : at(j) = idx
            THEN defs[CHOOSE j \in 1..Len(defs) : at(j) = idx].values
            ELSE ZeroRow]

VARIABLES K, name, video_range, sample, mpc, res, rgb, ycc,
          file_h, file_c, pc, i, enums, matrices, calls, err,
          enum_defines, matrix_defs, out, dst, colormatrix, fraction_format

matvars == <<name, video_range, sample, mpc, res, rgb, ycc>>

genvars == <<file_h, file_c, pc, i, enums, matrices, calls, err,
             enum_defines, matrix_defs, out, dst, colormatrix, fraction_format>>

vars == <<K, matvars, genvars>>

(***************************************************************************)
(* _get_matrix as a function: a standard, a range and a sample are drawn,  *)
(* the matrix is built, applied to the sample, and the forward model is    *)
(* applied to the result.                                                  *)
(***************************************************************************)
NSamples == 3

Codes == {(255 * j) \div NSamples : j \in 0..NSamples}

BlackCode(vrange) == RangeProfile(vrange)[1]

WhiteCode(vrange) == RangeProfile(vrange)[1] + RangeProfile(vrange)[2]

LumaCodes == Codes \cup {BlackCode(v) : v \in BOOLEAN} \cup {WhiteCode(v) : v \in BOOLEAN}

ChromaCodes == Codes \cup {128}

MatIdle ==
    /\ name = "undefined"
    /\ video_range = TRUE
    /\ sample = <<0, 0, 0>>
    /\ mpc = "idle"
    /\ res = Raise("none")
    /\ rgb = <<>>
    /\ ycc = <<>>

GenIdle ==
    /\ file_h = ""
    /\ file_c = ""
    /\ pc = "idle"
    /\ i = 0
    /\ enums = <<>>
    /\ matrices = <<>>
    /\ calls = <<>>
    /\ err = "none"
    /\ enum_defines = <<>>
    /\ matrix_defs = <<>>
    /\ out = <<>>
    /\ dst = <<>>
    /\ colormatrix = 0
    /\ fraction_format = TRUE

InitMat ==
    /\ K = K_constants
    /\ name \in Names
    /\ video_range \in BOOLEAN
    /\ sample \in LumaCodes \X ChromaCodes \X ChromaCodes
    /\ mpc = "start"
    /\ res = Raise("none")
    /\ rgb = <<>>
    /\ ycc = <<>>
    /\ GenIdle

CallGetMatrix ==
    /\ mpc = "start"
    /\ res' = _get_matrix(K, name, video_range)
    /\ mpc' = "built"
    /\ UNCHANGED <<K, name, video_range, sample, rgb, ycc, genvars>>

CallApply ==
    /\ mpc = "built"
    /\ res.err = "none"
    /\ rgb' = ApplyMatrix(res.mat, <<Code(sample[1]), Code(sample[2]), Code(sample[3])>>)
    /\ mpc' = "applied"
    /\ UNCHANGED <<K, name, video_range, sample, res, ycc, genvars>>

CallForward ==
    /\ mpc = "applied"
    /\ ForwardDefined(K[name])
    /\ ycc' = ForwardModel(K[name], video_range, rgb)
    /\ mpc' = "done"
    /\ UNCHANGED <<K, name, video_range, sample, res, rgb, genvars>>

NextMat == CallGetMatrix \/ CallApply \/ CallForward

SpecMat == InitMat /\ [][NextMat]_vars

(***************************************************************************)
(* _get_matrix over coefficient sets other than those of K_constants: the  *)
(* entry of one standard is replaced by a triple of a grid of rationals.   *)
(***************************************************************************)
KDen == 2

Grid == {IntFraction(j, KDen) : j \in (-1)..KDen}

InitCoeffs ==
    /\ name \in Names
    /\ K \in {[K_constants EXCEPT ![name] = t] : t \in Grid \X Grid \X Grid}
    /\ video_range \in BOOLEAN
    /\ sample = <<BlackCode(video_range), 128, 128>>
    /\ mpc = "start"
    /\ res = Raise("none")
    /\ rgb = <<>>
    /\ ycc = <<>>
    /\ GenIdle

SpecCoeffs == InitCoeffs /\ [][NextMat]_vars

(***************************************************************************)
(* A run of _gen_tables(file_h, file_c), and calls of the accessor of the  *)
(* generated C file.                                                       *)
(***************************************************************************)
Paths == {"colormatrix.h", "colormatrix.c", "gen.h", "gen.c"}

\* fraction_format: whether the interpreter formats a Fraction with the
\* '{:>16}' fields of _matrix_tpl (Python 2.7 and 3.13 do, through str();
\* Python 3.4 to 3.11 raise TypeError).
GenStart ==
    /\ file_h \in Paths
    /\ file_c \in Paths
    /\ pc = "loop"
    /\ i = 0
    /\ enums = <<>>
    /\ matrices = <<>>
    /\ calls = <<>>
    /\ err = "none"
    /\ enum_defines = <<>>
    /\ matrix_defs = <<>>
    /\ out = <<>>
    /\ dst = <<>>
    /\ colormatrix = 0
    /\ fraction_format \in BOOLEAN

Init ==
    /\ K = K_constants
    /\ MatIdle
    /\ GenStart

\* One iteration of: for i, cspace in enumerate(cspaces)
LoopStep ==
    /\ pc = "loop"
    /\ i < Len(cspaces)
    /\ LET cspace == cspaces[i + 1]
           r == _get_matrix(K, cspace, DefaultVideoRange)
       IN  /\ enums' = Append(enums, EnumName(cspace))
           /\ IF SkipsBuilder(i)
              THEN /\ i' = i + 1
                   /\ UNCHANGED <<matrices, calls, err, pc>>
              ELSE /\ calls' = Append(calls, <<cspace, DefaultVideoRange>>)
                   /\ IF Raises(r)
                      THEN /\ err' = r.err
                           /\ pc' = "failed"
                           /\ UNCHANGED <<matrices, i>>
                      ELSE /\ matrices' = Append(matrices, FlatMat(r.mat))
                           /\ i' = i + 1
                           /\ UNCHANGED <<err, pc>>
    /\ UNCHANGED <<K, matvars, file_h, file_c, enum_defines, matrix_defs, out, dst,
                   colormatrix, fraction_format>>

\* enum_defines = ..., matrix_defs = ...
Format ==
    /\ pc = "loop"
    /\ i = Len(cspaces)
    /\ enum_defines' = EnumDefines(enums)
    /\ IF fraction_format
       THEN /\ matrix_defs' = MatrixDefs(enums, matrices)
            /\ pc' = "write_h"
            /\ UNCHANGED err
       ELSE /\ err' = "TypeError"
            /\ pc' = "failed"
            /\ UNCHANGED matrix_defs
    /\ UNCHANGED <<K, matvars, file_h, file_c, i, enums, matrices, calls, out, dst,
                   colormatrix, fraction_format>>

\* open(file_h, 'w').write(_file_h_tpl.format(enum_defines))
WriteH ==
    /\ pc = "write_h"
    /\ out' = Append(out, [path |-> file_h,
                           content |-> [kind |-> "h", enum_defines |-> enum_defines]])
    /\ pc' = "write_c"
    /\ UNCHANGED <<K, matvars, file_h, file_c, i, enums, matrices, calls, err,
                   enum_defines, matrix_defs, dst, colormatrix, fraction_format>>

\* open(file_c, 'w').write(_file_c_tpl.format(file_h, matrix_defs))
WriteC ==
    /\ pc = "write_c"
    /\ out' = Append(out, [path |-> file_c,
                           content |-> [kind |-> "c", include |-> file_h,
                                        colormatrices |-> matrix_defs]])
    /\ pc' = "done"
    /\ UNCHANGED <<K, matvars, file_h, file_c, i, enums, matrices, calls, err,
                   enum_defines, matrix_defs, dst, colormatrix, fraction_format>>

\* The written C file compiles: it is a C file and its #include is a header.
Compiles ==
    /\ FileAt(out, file_c).kind = "c"
    /\ FileAt(out, FileAt(out, file_c).include).kind = "h"

CompiledTable ==
    Colormatrices(FileAt(out, FileAt(out, file_c).include), FileAt(out, file_c))

\* memcpy(dst, colormatrices[colormatrix], sizeof(colormatrices[colormatrix]))
\* for an index inside the array.
ngli_colormatrix_yuv_to_rgb ==
    /\ pc = "done"
    /\ Compiles
    /\ \E cm \in DOMAIN CompiledTable :
          /\ colormatrix' = cm
          /\ dst' = CompiledTable[cm]
    /\ UNCHANGED <<K, matvars, file_h, file_c, pc, i, enums, matrices, calls, err,
                   enum_defines, matrix_defs, out, fraction_format>>

Next == LoopStep \/ Format \/ WriteH \/ WriteC \/ ngli_colormatrix_yuv_to_rgb

Spec == Init /\ [][Next]_vars

(***************************************************************************)
(* _gen_tables over constant tables other than K_constants: one standard   *)
(* is missing, or has the coefficients of BadCoeffs.                       *)
(***************************************************************************)
BadCoeffs ==
    { <<IntFraction(2126, 10000), IntFraction(7125, 10000), IntFraction(722, 10000)>>,
      <<IntFraction(1, 2), Int2F(0), IntFraction(1, 2)>>,
      <<IntFraction(1, 2), IntFraction(-1, 2), Int2F(1)>> }

Tables ==
    {K_constants}
        \cup {[K_constants EXCEPT ![n] = t] : n \in Names, t \in BadCoeffs}
        \cup {[m \in Names \ {n} |-> K_constants[m]] : n \in Names}

InitTables ==
    /\ K \in Tables
    /\ MatIdle
    /\ GenStart

SpecTables == InitTables /\ [][Next]_vars

(***************************************************************************)
(* The properties.                                                         *)
(***************************************************************************)
SampleRow == <<Code(sample[1]), Code(sample[2]), Code(sample[3])>>

BlackSample == <<BlackCode(video_range), 128, 128>>

WhiteSample == <<WhiteCode(video_range), 128, 128>>

C4_Layout ==
    (mpc # "start" /\ mpc # "idle")
        => /\ res.err = "none"
           /\ Len(res.mat) = 4
           /\ \A r \in 1..4 : Len(res.mat[r]) = 4
           /\ \A r \in 1..3 : Eq(res.mat[r][4], Int2F(0))
           /\ Eq(res.mat[4][4], Int2F(1))
           /\ Eq(res.mat[2][1], Int2F(0))
           /\ Eq(res.mat[3][3], Int2F(0))
           /\ \A c \in 1..3 :
                 Eq(res.mat[1][c], IntFraction(255, RangeProfile(video_range)[2]))
           /\ \A r \in 1..4 :
                 /\ Eq(res.mat[r][1], R_column(K[name], video_range)[r])
                 /\ Eq(res.mat[r][2], G_column(K[name], video_range)[r])
                 /\ Eq(res.mat[r][3], B_column(K[name], video_range)[r])
           /\ ~Eq(res.mat[3][1], Int2F(0))
           /\ ~Eq(res.mat[2][3], Int2F(0))
           /\ ~Eq(res.mat[4][1], Int2F(0))

C4_Witness ==
    /\ mpc = "built"
    /\ res.err = "none"
    /\ name = "bt601"
    /\ video_range

\* The entry a Python list holds at position j (from 0).
PyAt(list, j) == list[j + 1]

\* C5: after any prefix of the colorspaces, enums gives identifier 0 to
\* undefined and 1..N to the standards in order, matrices has one entry less
\* than enums, its entry at position id-1 is the matrix built for the standard
\* of identifier id, and the builder was never called for undefined.
C5_CatalogIndexing ==
    /\ \A id \in 0..(Len(enums) - 1) : PyAt(enums, id) = EnumName(PyAt(cspaces, id))
    /\ Len(enums) = i
    /\ enums # <<>> => PyAt(enums, 0) = "NGLI_COLORMATRIX_UNDEFINED"
    /\ enums # <<>> => Len(matrices) = Len(enums) - 1
    /\ enums = <<>> => matrices = <<>>
    /\ \A id \in 1..(Len(enums) - 1) :
          PyAt(matrices, id - 1) = FlatMat(_get_matrix(K, PyAt(cspaces, id), TRUE).mat)
    /\ Len(calls) = Len(matrices)
    /\ \A c \in 1..Len(calls) : calls[c][1] # "undefined"
    /\ pc \notin {"loop", "idle", "failed"}
          => \A id \in 0..(Len(enum_defines) - 1) :
                /\ PyAt(enum_defines, id).value = id
                /\ PyAt(enum_defines, id).define = EnumName(PyAt(cspaces, id))

C5_Witness ==
    /\ pc = "loop"
    /\ i = 3
    /\ Len(matrices) = 2

\* The matrix _gen_tables builds for the colorspace of identifier id.
MatrixOfId(id) == FlatMat(_get_matrix(K, PyAt(cspaces, id), TRUE).mat)

\* C6 as stated: in the generated C file the matrix of the colorspace of
\* identifier id is at table position id-1, and the accessor called with a
\* non-undefined identifier copies the values of that colorspace.
C6_AddressedByIdMinusOne ==
    (pc = "done" /\ Compiles)
        => /\ \A id \in 1..(Len(cspaces) - 1) :
                 /\ (id - 1) \in DOMAIN CompiledTable
                 /\ CompiledTable[id - 1] = MatrixOfId(id)
           /\ (dst # <<>> /\ colormatrix >= 1) => dst = MatrixOfId(colormatrix)

\* C6: in the generated C file the matrix of the colorspace of identifier id
\* is at table position id (the designator is the identifier; position 0, the
\* slot of undefined, is a row of zeros), and the accessor called with a
\* non-undefined identifier copies the values of that colorspace.
C6_AddressedById ==
    (pc = "done" /\ Compiles)
        => /\ DOMAIN CompiledTable = 0..(Len(cspaces) - 1)
           /\ CompiledTable[0] = ZeroRow
           /\ \A id \in 1..(Len(cspaces) - 1) :
                 /\ DefineValue(FileAt(out, file_h), EnumName(PyAt(cspaces, id))) = id
                 /\ CompiledTable[id] = MatrixOfId(id)
           /\ (dst # <<>> /\ colormatrix >= 1) => dst = MatrixOfId(colormatrix)

C6_Witness ==
    /\ pc = "done"
    /\ Compiles
    /\ colormatrix = 2
    /\ dst = MatrixOfId(2)

\* C7: Kr + Kg + Kb = 1 exactly for every entry of K_constants, and the
\* assertion of _get_matrix fails in no run of _gen_tables.
C7_CoefficientSum ==
    /\ DOMAIN K = Names
    /\ \A n \in DOMAIN K : Eq(Add(Add(K[n][1], K[n][2]), K[n][3]), Int2F(1))
    /\ err # "AssertionError"
    /\ \A c \in 1..Len(calls) :
          _get_matrix(K, calls[c][1], calls[c][2]).err # "AssertionError"

C7_Witness ==
    /\ pc = "done"
    /\ Len(calls) = 3
    /\ err = "none"

\* The divisors the derivation may not have at zero.
Degenerate(k) ==
    \/ IsZero(k[2])
    \/ IsZero(Sub(Int2F(1), k[3]))
    \/ IsZero(Sub(Int2F(1), k[1]))

\* C8: for a coefficient set that passes the consistency check and has Kg = 0,
\* 1 - Kb = 0 or 1 - Kr = 0, _get_matrix fails with an error and returns no
\* matrix, in both ranges.
C8_DegenerateGuard ==
    (mpc # "start" /\ mpc # "idle" /\ Consistent(K[name]) /\ Degenerate(K[name]))
        => /\ res.err # "none"
           /\ res.mat = <<>>

\* The derivation of the matrix of cspace fails: unknown name, Kr + Kg + Kb # 1,
\* or a zero divisor.
DerivationFails(cspace) ==
    \/ cspace \notin DOMAIN K
    \/ ~Eq(Add(Add(K[cspace][1], K[cspace][2]), K[cspace][3]), Int2F(1))
    \/ IsZero(K[cspace][2])

Differ(m1, m2) == \E e \in 1..16 : ~Eq(m1[e], m2[e])

\* C10: every call of _get_matrix by _gen_tables is for the video range, and
\* every matrix of the table, and of the C file written, is the video range
\* (16, 219, 224) matrix of its standard, never the full range one.
C10_VideoRangeOnly ==
    /\ \A c \in 1..Len(calls) : calls[c][2] = TRUE
    /\ \A id \in 1..Len(matrices) :
          /\ ~Differ(PyAt(matrices, id - 1), FlatMat(Matrix(K[PyAt(cspaces, id)], TRUE)))
          /\ Differ(PyAt(matrices, id - 1), FlatMat(Matrix(K[PyAt(cspaces, id)], FALSE)))
    /\ \A w \in 1..Len(out) :
          out[w].content.kind = "c"
             => \A d \in 1..Len(out[w].content.colormatrices) :
                   \E n \in Names :
                      ~Differ(out[w].content.colormatrices[d].values,
                              FlatMat(Matrix(K[n], TRUE)))

C10_Witness ==
    /\ pc = "done"
    /\ Len(matrices) = 3
    /\ Len(calls) = 3
====
